---- MODULE Spec2Model ----
(***************************************************************************)
(* ACR webhook -> local image sync -> MeoW notification (src/app.py).      *)
(*                                                                         *)
(* Strings are sequences of tokens.  The separators "/", ":", " " and the  *)
(* line break "\n" are tokens of their own, every other token is a word    *)
(* without separators.  The empty string is << >>.                         *)
(*                                                                         *)
(* A JSON value is a record [k, s]: k is its Python type after json.loads  *)
(* ("str", "num", "null", "list", "dict") or "absent" for a missing key,   *)
(* and s is the string Python's str() renders it to (for a "str" value,    *)
(* the string itself).                                                     *)
(***************************************************************************)
EXTENDS Naturals, Integers, Sequences, FiniteSets, TLC

(* ------------------------------ bounds -------------------------------- *)
\* number of webhook requests that can be in flight at once
NumReqs == 2

Reqs == 1..NumReqs

(* ------------------------------ strings ------------------------------- *)
Empty == << >>

\* str.lower() on the tokens of the model's alphabet
LowerTok(t) ==
  CASE t = "LASTEST" -> "lastest"
    [] t = "Lastest" -> "lastest"
    [] OTHER -> t

Lower(s) == [i \in 1..Len(s) |-> LowerTok(s[i])]

RECURSIVE LStripTok(_, _)
LStripTok(s, c) ==
  IF s # Empty /\ Head(s) = c THEN LStripTok(Tail(s), c) ELSE s

RECURSIVE RStripTok(_, _)
RStripTok(s, c) ==
  IF s # Empty /\ s[Len(s)] = c THEN RStripTok(SubSeq(s, 1, Len(s) - 1), c) ELSE s

\* str.strip(c) for a one-character c
StripTok(s, c) == RStripTok(LStripTok(s, c), c)

\* str.strip(): leading and trailing whitespace removed
Strip(s) == StripTok(s, " ")

\* s.split("/")[-1]: what follows the last "/" (all of s when there is none)
RECURSIVE SplitLast(_)
SplitLast(s) ==
  IF s = Empty THEN Empty
  ELSE IF s[Len(s)] = "/" THEN Empty
  ELSE SplitLast(SubSeq(s, 1, Len(s) - 1)) \o <<s[Len(s)]>>

\* "\n".join(lines)
RECURSIVE Join(_)
Join(lines) ==
  IF lines = << >> THEN Empty
  ELSE IF Len(lines) = 1 THEN lines[1]
  ELSE lines[1] \o <<"\n">> \o Join(Tail(lines))

(* ---------------------------- JSON values ----------------------------- *)
JStr(s) == [k |-> "str", s |-> s]
JNum5 == [k |-> "num", s |-> <<"5">>]
JNull == [k |-> "null", s |-> <<"None">>]
Absent == [k |-> "absent", s |-> Empty]

\* Python truth value of a JSON value
Truthy(v) ==
  CASE v.k = "str" -> v.s # Empty
    [] v.k = "num" -> v.s # <<"0">>
    [] v.k = "null" -> FALSE
    [] v.k = "list" -> v.s # <<"[]">>
    [] v.k = "dict" -> v.s # <<"{}">>
    [] OTHER -> FALSE

\* d.get(key, default) on a dict whose member is v (Absent when missing)
Get(v, default) == IF v.k = "absent" THEN default ELSE v

\* a or b
Or(a, b) == IF Truthy(a) THEN a ELSE b

(* --------------------------- configuration ---------------------------- *)
\* src/app.py:47
\* lines 27 and 29, as the deployment sets them
MIAO_NICKNAME == <<"nick">>
DEFAULT_TITLE == <<"MeoW">>

IGNORE_TAG == <<"__ACR_BUILD_SERVICE_INTERNAL_IMAGE_CACHE">>

\* status headlines (src/app.py:245, 249, 251)
MSG_NOT_TRIGGERED == <<"build complete (auto-pull not triggered)">>
MSG_PULL_OK == <<"build complete, auto-pull succeeded">>
MSG_PULL_NOT_OK == <<"build complete, auto-pull did not succeed">>

\* the environment the process may be started with (src/app.py:27-44)
Credentials ==
  {[user |-> Empty, password |-> Empty],
   [user |-> <<"user">>, password |-> Empty],
   [user |-> <<"user">>, password |-> <<"pw">>]}

Configs ==
  {[WEBHOOK_SECRET |-> secret,
    ALLOW_NAMESPACE |-> ns,
    ACR_USERNAME |-> cred.user,
    ACR_PASSWORD |-> cred.password,
    ACR_REGISTRY |-> <<"reg">>,
    LOCAL_IMAGE_NAME |-> name,
    LOCAL_TAG |-> tag,
    DEFAULT_JUMP_URL |-> url] :
     secret \in {Empty, <<"s3cret">>},
     ns \in {Empty, <<"ns">>},
     cred \in Credentials,
     name \in {Empty, <<"web">>},
     tag \in {<<"latest">>},
     url \in {Empty, <<"http://jump">>}}

(* ------------------------------ requests ------------------------------ *)
\* the ?secret= query parameter: missing (None) or a string
Secrets == {JNull, JStr(<<"s3cret">>), JStr(<<"wrong">>)}

\* the User-Agent header, echoed in the response
UserAgents == {JStr(<<"acr-webhook">>)}

\* the "push_data" member of the body: k is the JSON type of the member
\* itself, the other fields are its members when it is a dict
PushData(tag, digest, pushed_at) ==
  [k |-> "dict", tag |-> tag, digest |-> digest, pushed_at |-> pushed_at]

NonDictPushData(k) ==
  [k |-> k, tag |-> Absent, digest |-> Absent, pushed_at |-> Absent]

\* the "repository" member of the body
Repository(full, ns, name, region) ==
  [k |-> "dict", repo_full_name |-> full, namespace |-> ns, name |-> name,
   region |-> region]

NonDictRepository(k) ==
  [k |-> k, repo_full_name |-> Absent, namespace |-> Absent, name |-> Absent,
   region |-> Absent]

PushDatas ==
  {NonDictPushData("absent"),
   NonDictPushData("str"),
   PushData(JStr(<<"v1">>), JStr(<<"sha256:d">>), JStr(<<"t0">>)),
   PushData(JStr(<<"LASTEST">>), Absent, Absent),
   PushData(JStr(IGNORE_TAG), Absent, Absent),
   PushData(JNum5, Absent, Absent)}

Repositories ==
  {NonDictRepository("absent"),
   NonDictRepository("list"),
   Repository(JStr(<<"ns", "/", "app">>), JStr(<<"ns">>), JStr(<<"app">>), JStr(<<"cn">>)),
   Repository(Absent, JStr(<<"other">>), JStr(<<"app">>), Absent),
   Repository(JStr(<<"ns", "/">>), JStr(<<"ns">>), Absent, Absent),
   Repository(JNum5, JStr(<<"ns">>), Absent, Absent),
   Repository(JStr(<<"ns", "/", "app">>), JNum5, Absent, Absent)}

\* raw request bodies: the empty text, a text that is not JSON, a JSON value
\* that is no object, and JSON objects
Bodies ==
  {[kind |-> "empty", push_data |-> NonDictPushData("absent"),
    repository |-> NonDictRepository("absent")],
   [kind |-> "notjson", push_data |-> NonDictPushData("absent"),
    repository |-> NonDictRepository("absent")],
   [kind |-> "list", push_data |-> NonDictPushData("absent"),
    repository |-> NonDictRepository("absent")]}
  \cup [kind : {"dict"}, push_data : PushDatas, repository : Repositories]

\* the bodies the clients of the server send
\* push events of a registry: two repositories, one tag
PushBodies ==
  [kind : {"dict"},
   push_data : {PushData(JStr(<<"v1">>), JStr(<<"sha256:d">>), JStr(<<"t0">>))},
   repository : {Repository(JStr(<<"ns", "/", "app">>), JStr(<<"ns">>), JStr(<<"app">>),
                            JStr(<<"cn">>)),
                 Repository(Absent, JStr(<<"other">>), JStr(<<"app">>), Absent)}]

BodiesSent(traffic) == IF traffic = "any" THEN Bodies ELSE PushBodies

\* the ?secret= parameters the clients send
SecretsSent(traffic) == IF traffic = "any" THEN Secrets ELSE {JNull}

\* requests to /notify: the query parameters of GET (strings, or left out),
\* the members of the JSON object of POST (any JSON value, or left out)
Manuals ==
  {m \in [route : {"GET", "POST"}, secret : Secrets, title : {Absent},
          msg : {Absent, JStr(Empty), JStr(<<"hello">>), JNum5},
          url : {Absent}, nickname : {Absent, JStr(<<"bob">>), JNum5}] :
     m.route = "GET" => m.msg.k # "num" /\ m.nickname.k # "num"}

ManualsSent(traffic) ==
  IF traffic = "any" THEN Manuals
  ELSE {[route |-> rt, secret |-> JNull, title |-> Absent, msg |-> JStr(<<"hello">>),
         url |-> Absent, nickname |-> Absent] : rt \in {"GET", "POST"}}

(* --------------------------- the runtime ------------------------------ *)
\* what a call of the docker SDK can do: return, raise docker.errors.APIError
\* (NotFound is a subclass of it), or raise something else (a connection
\* error of requests, a DockerException)
Outcomes == {"ok", "APIError", "ConnectionError"}

\* except APIError / except (APIError, NotFound): what the handlers catch
IsAPIError(o) == o = "APIError"

\* getattr(e, "explanation", str(e))
Explanation(o) == <<"explanation of ", o>>

\* str(e)
StrOf(o) == <<"str of ", o>>

\* the image a pull of ref yields: the registry's content at ref
ImageOf(ref) == <<"image of ">> \o ref

\* the local image cache is a function from references to images
Tagged(cache, ref, img) ==
  [x \in DOMAIN cache \cup {ref} |-> IF x = ref THEN img ELSE cache[x]]

Untagged(cache, ref) == [x \in DOMAIN cache \ {ref} |-> cache[x]]

NoImages == [x \in {} |-> Empty]

(* ------------------------ parsing (lines 214-229) --------------------- *)
EmptyPushData == PushData(Absent, Absent, Absent)
EmptyRepository == Repository(Absent, Absent, Absent, Absent)

\* push_data = data.get("push_data", {}) if isinstance(data, dict) else {}
PushDataOf(body) ==
  IF body.kind = "dict" /\ body.push_data.k # "absent"
  THEN body.push_data ELSE EmptyPushData

\* repo = data.get("repository", {}) if isinstance(data, dict) else {}
RepositoryOf(body) ==
  IF body.kind = "dict" /\ body.repository.k # "absent"
  THEN body.repository ELSE EmptyRepository

\* repo.get("namespace") or ""
NamespaceOrEmpty(repo) == Or(Get(repo.namespace, JNull), JStr(Empty))

\* lines 224-229 raise AttributeError: .get on a value that is no dict, or
\* .strip on a namespace that is no string
ParseRaises(body) ==
  \/ PushDataOf(body).k # "dict"
  \/ RepositoryOf(body).k # "dict"
  \/ NamespaceOrEmpty(RepositoryOf(body)).k # "str"

\* repo.get("repo_full_name") or f"{namespace}/{name}".strip("/")
RepoFull(repo) ==
  Or(Get(repo.repo_full_name, JNull),
     JStr(StripTok(Get(repo.namespace, JStr(Empty)).s \o <<"/">>
                   \o Get(repo.name, JStr(Empty)).s, "/")))

\* the locals tag, digest, pushed_at, repo_full, namespace, region
ParseEvent(body) ==
  LET pd == PushDataOf(body)
      repo == RepositoryOf(body)
  IN [tag |-> Or(Get(pd.tag, JStr(Empty)), JStr(<<"latest">>)),
      digest |-> Get(pd.digest, JStr(Empty)),
      pushed_at |-> Get(pd.pushed_at, JStr(Empty)),
      repo_full |-> RepoFull(repo),
      namespace |-> JStr(Strip(NamespaceOrEmpty(repo).s)),
      region |-> Get(repo.region, JStr(Empty))]

(* ----------------------- admission (lines 232-241) -------------------- *)
Skip(reason) ==
  [keys |-> {"skipped", "reason"}, skipped |-> TRUE, reason |-> reason,
   steps |-> << >>, remote |-> Empty, local |-> Empty]

\* the else branch: the sync engine is called
Proceed ==
  [keys |-> {}, skipped |-> FALSE, reason |-> Empty, steps |-> << >>,
   remote |-> Empty, local |-> Empty]

\* mutant: the ignored tag is looked at before the empty repository name
Admission_TagFirst(c, e) ==
  IF e.tag = JStr(IGNORE_TAG) THEN Skip(<<"ignored tag ">> \o IGNORE_TAG)
  ELSE IF ~Truthy(e.repo_full) THEN Skip(<<"empty repo_full">>)
  ELSE IF c.ALLOW_NAMESPACE # Empty /\ e.namespace # JStr(c.ALLOW_NAMESPACE)
       THEN Skip(<<"namespace not allowed: ">> \o e.namespace.s)
  ELSE Proceed

\* the branch the if / elif chain takes
Admission(c, e) ==
  IF ~Truthy(e.repo_full) THEN Skip(<<"empty repo_full">>)
  ELSE IF e.tag = JStr(IGNORE_TAG) THEN Skip(<<"ignored tag ">> \o IGNORE_TAG)
  ELSE IF c.ALLOW_NAMESPACE # Empty /\ e.namespace # JStr(c.ALLOW_NAMESPACE)
       THEN Skip(<<"namespace not allowed: ">> \o e.namespace.s)
  ELSE Proceed

(* -------------------- the sync engine (lines 70-150) ------------------ *)
\* normalize_tag on a string
normalize_tag(tag) ==
  IF tag # Empty /\ Lower(tag) = <<"lastest">> THEN <<"latest">>
  ELSE IF tag # Empty THEN tag ELSE <<"latest">>

Step(key, val) == [key |-> key, val |-> val, id |-> Empty, local |-> Empty]

\* a result returned before the end: only "steps"
Partial(steps) ==
  [keys |-> {"steps"}, skipped |-> FALSE, reason |-> Empty, steps |-> steps,
   remote |-> Empty, local |-> Empty]

\* line 89
NoLocalImage ==
  [keys |-> {"steps", "rc"}, skipped |-> FALSE, reason |-> Empty,
   steps |-> <<Step("error", <<"local image name resolved empty">>)>>,
   remote |-> Empty, local |-> Empty]

\* lines 148-150
Complete(steps, remote, local) ==
  [keys |-> {"steps", "remote", "local"}, skipped |-> FALSE, reason |-> Empty,
   steps |-> steps, remote |-> remote, local |-> local]

\* a result without "remote" and "local" is one that ended early
TerminatedEarly(result) == "remote" \notin result.keys

(* ------------------ the status reporter (lines 243-262) --------------- *)
\* next((s for s in steps if "pull" in s), None) is a step whose "pull" is "ok"
PullOk(result) ==
  \E i \in 1..Len(result.steps) :
    /\ result.steps[i].key = "pull"
    /\ \A j \in 1..(i - 1) : result.steps[j].key # "pull"
    /\ result.steps[i].val = <<"ok">>

\* mutant: a skipped event is reported like a failed pull
StatusMsg_SkippedAsFailed(result) ==
  IF PullOk(result) THEN MSG_PULL_OK ELSE MSG_PULL_NOT_OK

\* mutant: the headline asks for every recorded step to be ok
StatusMsg_AllSteps(result) ==
  IF result.skipped THEN MSG_NOT_TRIGGERED
  ELSE IF PullOk(result) /\ \A i \in 1..Len(result.steps) :
                             result.steps[i].val \in {<<"ok">>, <<"skipped">>}
       THEN MSG_PULL_OK
  ELSE MSG_PULL_NOT_OK

StatusMsg(result) ==
  IF result.skipped THEN MSG_NOT_TRIGGERED
  ELSE IF PullOk(result) THEN MSG_PULL_OK
  ELSE MSG_PULL_NOT_OK

\* mutant: a field that is missing still gets its line
Line_Always(label, v) == <<label \o v.s>>

Line(label, v) == IF Truthy(v) THEN <<label \o v.s>> ELSE << >>

\* msg_lines without its None entries
MsgLines(e, status_msg) ==
  Line(<<"Repository: ">>, e.repo_full) \o Line(<<"Region: ">>, e.region)
  \o Line(<<"Tag: ">>, e.tag) \o Line(<<"Digest: ">>, e.digest)
  \o Line(<<"Time: ">>, e.pushed_at) \o <<<<"Status: ">> \o status_msg>>

Msg(e, status_msg) ==
  IF Join(MsgLines(e, status_msg)) # Empty
  THEN Join(MsgLines(e, status_msg)) ELSE status_msg

\* jump_url = DEFAULT_JUMP_URL or repo_full
JumpUrl(c, e) == Or(JStr(c.DEFAULT_JUMP_URL), e.repo_full)

(* -------------------- push_meow (lines 51-66) ------------------------- *)
GatewayOutcomes == {"delivered", "exception"}

\* the JSON posted to the gateway: "url" only when it is truthy
Payload(title, msg, url) ==
  [title |-> IF title # Empty THEN title ELSE DEFAULT_TITLE, msg |-> msg,
   url |-> IF Truthy(url) THEN url ELSE Absent]

MeowResult(o) ==
  IF o = "delivered" THEN [http_status |-> 200, error |-> Empty]
  ELSE [http_status |-> 0, error |-> <<"push_meow exception, see logs">>]

(* ============================ the server ============================== *)
VARIABLES
  cfg,      \* the environment read at import (lines 27-47), never written
  clients,  \* who calls the server: the connections in use, the kind of
            \* bodies sent and the number of requests sent in all
  served,   \* number of requests received so far
  images,   \* the runtime's local image cache: reference -> image
  loop,     \* the request whose coroutine the event loop runs, 0 when free
  pc,       \* pc[r]: where the handler of request r stands
  req,      \* req[r]: secret, user_agent and body of request r
  ev,       \* ev[r]: the locals of lines 224-229
  dk,       \* dk[r]: the locals of docker_login_pull_tag_remove
  deploy,   \* deploy[r]: deploy_result
  out,      \* out[r]: status_msg, msg, jump_url, meow_res
  resp,     \* resp[r]: the HTTP response
  calls,    \* calls[r]: the calls request r made to the runtime and the gateway
  man,      \* man[r]: the parameters of a request to /notify
  last      \* the sync of the request that finished last: its event, how it
            \* went and the cache it left

vars == <<cfg, clients, served, images, loop, pc, req, ev, dk, deploy, out, resp, calls,
          man, last>>

NoReq == [secret |-> JNull, user_agent |-> JNull,
          body |-> [kind |-> "none", push_data |-> NonDictPushData("absent"),
                    repository |-> NonDictRepository("absent")]]
NoEvent == [tag |-> Absent, digest |-> Absent, pushed_at |-> Absent,
            repo_full |-> Absent, namespace |-> Absent, region |-> Absent]
NoDocker == [tag |-> Empty, local_image |-> Empty, remote |-> Empty,
             local |-> Empty, img |-> Empty, steps |-> << >>]
NoDeploy == [keys |-> {}, skipped |-> FALSE, reason |-> Empty, steps |-> << >>,
             remote |-> Empty, local |-> Empty]
NoOut == [status_msg |-> Empty, msg |-> Empty, jump_url |-> Absent,
          payload |-> Payload(Empty, Empty, Absent),
          meow_res |-> [http_status |-> 0, error |-> Empty]]
NoResp == [status |-> 0, keys |-> {}]
NoManual == [route |-> "none", secret |-> JNull, title |-> Absent, msg |-> Absent,
             url |-> Absent, nickname |-> Absent]
NoLast == [ran |-> FALSE, ev |-> NoEvent, calls |-> << >>, early |-> FALSE,
           cache |-> NoImages]

Call(op, arg, res) == [op |-> op, arg |-> arg, res |-> res]

\* everything but the environment and the clients
InitServer ==
  /\ served = 0
  /\ images = NoImages
  /\ loop = 0
  /\ pc = [r \in Reqs |-> "idle"]
  /\ req = [r \in Reqs |-> NoReq]
  /\ ev = [r \in Reqs |-> NoEvent]
  /\ dk = [r \in Reqs |-> NoDocker]
  /\ deploy = [r \in Reqs |-> NoDeploy]
  /\ out = [r \in Reqs |-> NoOut]
  /\ resp = [r \in Reqs |-> NoResp]
  /\ calls = [r \in Reqs |-> << >>]
  /\ man = [r \in Reqs |-> NoManual]
  /\ last = NoLast

\* one client that sends one request, with any body
Init ==
  /\ cfg \in Configs
  /\ clients = [slots |-> {1}, traffic |-> "any", requests |-> 1]
  /\ InitServer

\* an uncaught exception: the framework answers 500
Raise(r) ==
  /\ pc' = [pc EXCEPT ![r] = "fault"]
  /\ resp' = [resp EXCEPT ![r] = [status |-> 500, keys |-> {}]]

\* the sync engine returns result to line 241
Return(r, result) ==
  /\ pc' = [pc EXCEPT ![r] = "report"]
  /\ deploy' = [deploy EXCEPT ![r] = result]

\* mutant: a request without ?secret= is let through
SecretInvalid_IgnoresMissing(c, secret) ==
  c.WEBHOOK_SECRET # Empty /\ secret # JNull /\ secret # JStr(c.WEBHOOK_SECRET)

\* is the secret of the request refused (lines 210, 176, 185)
SecretInvalid(c, secret) ==
  c.WEBHOOK_SECRET # Empty /\ secret # JStr(c.WEBHOOK_SECRET)

\* POST /payload arrives: the handler starts and awaits the body (line 205)
PostPayload(r) ==
  /\ pc[r] = "idle"
  /\ r \in clients.slots
  /\ served < clients.requests
  /\ served' = served + 1
  /\ pc' = [pc EXCEPT ![r] = "await_body"]
  /\ UNCHANGED <<man, last, cfg, clients, images, loop, req, ev, dk, deploy, out, resp, calls>>

\* POST / arrives: root_payload awaits acr_payload (lines 278-281)
PostRoot(r) ==
  /\ pc[r] = "idle"
  /\ r \in clients.slots
  /\ served < clients.requests
  /\ served' = served + 1
  /\ pc' = [pc EXCEPT ![r] = "await_body"]
  /\ UNCHANGED <<man, last, cfg, clients, images, loop, req, ev, dk, deploy, out, resp, calls>>

\* mutant: the handler runs on a thread of its own, not on the event loop
ReadBody_OwnThread(r) ==
  /\ pc[r] = "await_body"
  /\ loop' = r
  /\ \E secret \in SecretsSent(clients.traffic), ua \in UserAgents,
        body \in BodiesSent(clients.traffic) :
       /\ req' = [req EXCEPT ![r] = [secret |-> secret, user_agent |-> ua, body |-> body]]
       /\ IF SecretInvalid(cfg, secret)
          THEN /\ pc' = [pc EXCEPT ![r] = "rejected"]
               /\ resp' = [resp EXCEPT ![r] = [status |-> 401, keys |-> {"detail"}]]
          ELSE /\ pc' = [pc EXCEPT ![r] = "parse"]
               /\ UNCHANGED resp
  /\ UNCHANGED <<man, last, cfg, clients, served, images, ev, dk, deploy, out, calls>>

\* lines 205-212: the body is there, the coroutine runs on and checks the secret
ReadBody(r) ==
  /\ pc[r] = "await_body"
  /\ loop = 0
  /\ loop' = r
  /\ \E secret \in SecretsSent(clients.traffic), ua \in UserAgents,
        body \in BodiesSent(clients.traffic) :
       /\ req' = [req EXCEPT ![r] = [secret |-> secret, user_agent |-> ua, body |-> body]]
       /\ IF SecretInvalid(cfg, secret)
          THEN /\ pc' = [pc EXCEPT ![r] = "rejected"]
               /\ resp' = [resp EXCEPT ![r] = [status |-> 401, keys |-> {"detail"}]]
          ELSE /\ pc' = [pc EXCEPT ![r] = "parse"]
               /\ UNCHANGED resp
  /\ UNCHANGED <<man, last, cfg, clients, served, images, ev, dk, deploy, out, calls>>

\* lines 214-229
Parse(r) ==
  /\ pc[r] = "parse"
  /\ IF ParseRaises(req[r].body)
     THEN Raise(r) /\ UNCHANGED ev
     ELSE /\ ev' = [ev EXCEPT ![r] = ParseEvent(req[r].body)]
          /\ pc' = [pc EXCEPT ![r] = "admit"]
          /\ UNCHANGED resp
  /\ UNCHANGED <<man, last, cfg, clients, served, images, loop, req, dk, deploy, out, calls>>

\* local_image_name = LOCAL_IMAGE_NAME or repo_full.split("/")[-1]  (line 239)
LocalImageName(c, e) ==
  IF c.LOCAL_IMAGE_NAME # Empty THEN c.LOCAL_IMAGE_NAME ELSE SplitLast(e.repo_full.s)

\* lines 232-241, up to the call of the sync engine
Admit(r) ==
  /\ pc[r] = "admit"
  /\ IF Admission(cfg, ev[r]).skipped
     THEN /\ Return(r, Admission(cfg, ev[r]))
          /\ UNCHANGED <<dk, resp>>
     ELSE IF cfg.LOCAL_IMAGE_NAME = Empty /\ ev[r].repo_full.k # "str"
     THEN \* repo_full.split on a value that is no string
          Raise(r) /\ UNCHANGED <<dk, deploy>>
     ELSE /\ dk' = [dk EXCEPT ![r] = [NoDocker EXCEPT !.local_image = LocalImageName(cfg, ev[r])]]
          /\ pc' = [pc EXCEPT ![r] = "sync"]
          /\ UNCHANGED <<deploy, resp>>
  /\ UNCHANGED <<man, last, cfg, clients, served, images, loop, req, ev, out, calls>>

\* what docker.from_env() can do: return a client or raise DockerException
ClientOutcomes == {"ok", "DockerException"}

\* (local_image_name or LOCAL_IMAGE_NAME or repo_full.split("/")[-1]).strip()
LocalImage(c, name, repo_full) ==
  Strip(IF name # Empty THEN name
        ELSE IF c.LOCAL_IMAGE_NAME # Empty THEN c.LOCAL_IMAGE_NAME
        ELSE SplitLast(repo_full.s))

\* f"{ACR_REGISTRY}/{repo_full}:{tag}"
RemoteRef(c, repo_full, tag) == c.ACR_REGISTRY \o <<"/">> \o repo_full.s \o <<":">> \o tag

\* f"{local_image}:{LOCAL_TAG}"
LocalRef(c, local_image) == local_image \o <<":">> \o c.LOCAL_TAG

\* lines 85-95: the references are derived and the client is obtained
SyncStart(r) ==
  /\ pc[r] = "sync"
  /\ IF ev[r].tag.k # "str"
     THEN \* tag.lower() on a value that is no string
          Raise(r) /\ UNCHANGED <<dk, deploy, calls>>
     ELSE IF LocalImage(cfg, dk[r].local_image, ev[r].repo_full) = Empty
     THEN Return(r, NoLocalImage) /\ UNCHANGED <<dk, resp, calls>>
     ELSE \E o \in ClientOutcomes :
            /\ calls' = [calls EXCEPT ![r] = Append(@, Call("from_env", Empty, o))]
            /\ dk' = [dk EXCEPT ![r] =
                 [tag |-> normalize_tag(ev[r].tag.s),
                  local_image |-> LocalImage(cfg, dk[r].local_image, ev[r].repo_full),
                  remote |-> RemoteRef(cfg, ev[r].repo_full, normalize_tag(ev[r].tag.s)),
                  local |-> LocalRef(cfg, LocalImage(cfg, dk[r].local_image, ev[r].repo_full)),
                  img |-> Empty,
                  steps |-> << >>]]
            /\ IF o = "ok"
               THEN pc' = [pc EXCEPT ![r] = "login"] /\ UNCHANGED <<deploy, resp>>
               ELSE Raise(r) /\ UNCHANGED deploy
  /\ UNCHANGED <<man, last, cfg, clients, served, images, loop, req, ev, out>>

\* mutant: the login is skipped only when both credentials are missing
NoCreds_Both(c) == c.ACR_USERNAME = Empty /\ c.ACR_PASSWORD = Empty

\* not ACR_USERNAME or not ACR_PASSWORD
NoCreds(c) == c.ACR_USERNAME = Empty \/ c.ACR_PASSWORD = Empty

\* mutant: the "return results" of line 109 is missing
Login_Continue(r) ==
  /\ pc[r] = "login"
  /\ IF NoCreds(cfg)
     THEN /\ dk' = [dk EXCEPT ![r].steps = Append(@, Step("login", <<"skipped">>))]
          /\ pc' = [pc EXCEPT ![r] = "pull"]
          /\ UNCHANGED <<deploy, resp, calls>>
     ELSE \E o \in Outcomes :
            /\ calls' = [calls EXCEPT ![r] = Append(@, Call("login", cfg.ACR_REGISTRY, o))]
            /\ IF o = "ok" \/ IsAPIError(o)
               THEN /\ dk' = [dk EXCEPT ![r].steps = Append(@,
                              IF o = "ok" THEN Step("login", <<"ok">>)
                              ELSE Step("login", <<"failed: ">> \o Explanation(o)))]
                    /\ pc' = [pc EXCEPT ![r] = "pull"]
                    /\ UNCHANGED <<deploy, resp>>
               ELSE Raise(r) /\ UNCHANGED <<dk, deploy>>
  /\ UNCHANGED <<man, last, cfg, clients, served, images, loop, req, ev, out>>

\* lines 97-109
Login(r) ==
  /\ pc[r] = "login"
  /\ IF NoCreds(cfg)
     THEN /\ dk' = [dk EXCEPT ![r].steps = Append(@, Step("login", <<"skipped">>))]
          /\ pc' = [pc EXCEPT ![r] = "pull"]
          /\ UNCHANGED <<deploy, resp, calls>>
     ELSE \E o \in Outcomes :
            /\ calls' = [calls EXCEPT ![r] = Append(@, Call("login", cfg.ACR_REGISTRY, o))]
            /\ IF o = "ok"
               THEN /\ dk' = [dk EXCEPT ![r].steps = Append(@, Step("login", <<"ok">>))]
                    /\ pc' = [pc EXCEPT ![r] = "pull"]
                    /\ UNCHANGED <<deploy, resp>>
               ELSE IF IsAPIError(o)
               THEN /\ Return(r, Partial(Append(dk[r].steps,
                                   Step("login", <<"failed: ">> \o Explanation(o)))))
                    /\ UNCHANGED <<dk, resp>>
               ELSE Raise(r) /\ UNCHANGED <<dk, deploy>>
  /\ UNCHANGED <<man, last, cfg, clients, served, images, loop, req, ev, out>>

\* mutant: the "return results" of line 121 is missing
Pull_Continue(r) ==
  /\ pc[r] = "pull"
  /\ \E o \in Outcomes :
       /\ calls' = [calls EXCEPT ![r] = Append(@, Call("pull", dk[r].remote, o))]
       /\ IF o = "ok"
          THEN /\ images' = Tagged(images, dk[r].remote, ImageOf(dk[r].remote))
               /\ dk' = [dk EXCEPT ![r].img = ImageOf(dk[r].remote),
                                   ![r].steps = Append(@, [Step("pull", <<"ok">>)
                                                  EXCEPT !.id = ImageOf(dk[r].remote)])]
               /\ pc' = [pc EXCEPT ![r] = "tag"]
               /\ UNCHANGED <<deploy, resp>>
          ELSE IF IsAPIError(o)
          THEN /\ dk' = [dk EXCEPT ![r].steps =
                           Append(@, Step("pull", <<"failed: ">> \o Explanation(o)))]
               /\ pc' = [pc EXCEPT ![r] = "tag"]
               /\ UNCHANGED <<images, deploy, resp>>
          ELSE Raise(r) /\ UNCHANGED <<images, dk, deploy>>
  /\ UNCHANGED <<man, last, cfg, clients, served, loop, req, ev, out>>

\* lines 111-121
Pull(r) ==
  /\ pc[r] = "pull"
  /\ \E o \in Outcomes :
       /\ calls' = [calls EXCEPT ![r] = Append(@, Call("pull", dk[r].remote, o))]
       /\ IF o = "ok"
          THEN /\ images' = Tagged(images, dk[r].remote, ImageOf(dk[r].remote))
               /\ dk' = [dk EXCEPT ![r].img = ImageOf(dk[r].remote),
                                   ![r].steps = Append(@, [Step("pull", <<"ok">>)
                                                  EXCEPT !.id = ImageOf(dk[r].remote)])]
               /\ pc' = [pc EXCEPT ![r] = "tag"]
               /\ UNCHANGED <<deploy, resp>>
          ELSE IF IsAPIError(o)
          THEN /\ Return(r, Partial(Append(dk[r].steps,
                              Step("pull", <<"failed: ">> \o Explanation(o)))))
               /\ UNCHANGED <<images, dk, resp>>
          ELSE Raise(r) /\ UNCHANGED <<images, dk, deploy>>
  /\ UNCHANGED <<man, last, cfg, clients, served, loop, req, ev, out>>

\* the image is in the cache under some reference
Cached(cache, img) == \E ref \in DOMAIN cache : cache[ref] = img

\* mutant: an alias that exists already is taken for a failure of the tagging
Tag_RefusesExisting(r) ==
  /\ pc[r] = "tag"
  /\ IF dk[r].local \in DOMAIN images
     THEN /\ dk' = [dk EXCEPT ![r].steps = Append(@, Step("tag", <<"failed: exists">>))]
          /\ pc' = [pc EXCEPT ![r] = "cleanup"]
          /\ UNCHANGED <<images, resp, calls>>
     ELSE \E o \in Outcomes :
            /\ o = "ok" => Cached(images, dk[r].img)
            /\ calls' = [calls EXCEPT ![r] = Append(@, Call("tag", dk[r].local, o))]
            /\ IF o = "ok"
               THEN /\ images' = Tagged(images, dk[r].local, dk[r].img)
                    /\ dk' = [dk EXCEPT ![r].steps = Append(@, [Step("tag", <<"ok">>)
                                                       EXCEPT !.local = dk[r].local])]
                    /\ pc' = [pc EXCEPT ![r] = "rmi"]
                    /\ UNCHANGED resp
               ELSE IF IsAPIError(o)
               THEN /\ dk' = [dk EXCEPT ![r].steps =
                                Append(@, Step("tag", <<"failed: ">> \o StrOf(o)))]
                    /\ pc' = [pc EXCEPT ![r] = "cleanup"]
                    /\ UNCHANGED <<images, resp>>
               ELSE Raise(r) /\ UNCHANGED <<images, dk>>
  /\ UNCHANGED <<man, last, cfg, clients, served, loop, req, ev, deploy, out>>

\* lines 123-130: img.tag(local_image, tag=LOCAL_TAG)
Tag(r) ==
  /\ pc[r] = "tag"
  /\ \E o \in Outcomes :
       /\ o = "ok" => Cached(images, dk[r].img)
       /\ calls' = [calls EXCEPT ![r] = Append(@, Call("tag", dk[r].local, o))]
       /\ IF o = "ok"
          THEN /\ images' = Tagged(images, dk[r].local, dk[r].img)
               /\ dk' = [dk EXCEPT ![r].steps = Append(@, [Step("tag", <<"ok">>)
                                                  EXCEPT !.local = dk[r].local])]
               /\ pc' = [pc EXCEPT ![r] = "rmi"]
               /\ UNCHANGED resp
          ELSE IF IsAPIError(o)
          THEN /\ dk' = [dk EXCEPT ![r].steps =
                           Append(@, Step("tag", <<"failed: ">> \o StrOf(o)))]
               /\ pc' = [pc EXCEPT ![r] = "cleanup"]
               /\ UNCHANGED <<images, resp>>
          ELSE Raise(r) /\ UNCHANGED <<images, dk>>
  /\ UNCHANGED <<man, last, cfg, clients, served, loop, req, ev, deploy, out>>

\* mutant: the removal is not wrapped in try / except Exception
Cleanup_Unguarded(r) ==
  /\ pc[r] = "cleanup"
  /\ \E o \in Outcomes :
       /\ o = "ok" => dk[r].remote \in DOMAIN images
       /\ calls' = [calls EXCEPT ![r] = Append(@, Call("remove", dk[r].remote, o))]
       /\ images' = IF o = "ok" THEN Untagged(images, dk[r].remote) ELSE images
       /\ IF o = "ok"
          THEN Return(r, Partial(dk[r].steps)) /\ UNCHANGED resp
          ELSE Raise(r) /\ UNCHANGED deploy
  /\ UNCHANGED <<man, last, cfg, clients, served, loop, req, ev, dk, out>>

\* lines 131-136: client.images.remove(remote), whatever it raises is dropped
Cleanup(r) ==
  /\ pc[r] = "cleanup"
  /\ \E o \in Outcomes :
       /\ o = "ok" => dk[r].remote \in DOMAIN images
       /\ calls' = [calls EXCEPT ![r] = Append(@, Call("remove", dk[r].remote, o))]
       /\ images' = IF o = "ok" THEN Untagged(images, dk[r].remote) ELSE images
       /\ Return(r, Partial(dk[r].steps))
  /\ UNCHANGED <<man, last, cfg, clients, served, loop, req, ev, dk, out, resp>>

\* mutant: a failed removal returns at once, as the other steps do
Rmi_ReturnsEarly(r) ==
  /\ pc[r] = "rmi"
  /\ \E o \in Outcomes :
       /\ o = "ok" => dk[r].remote \in DOMAIN images
       /\ calls' = [calls EXCEPT ![r] = Append(@, Call("remove", dk[r].remote, o))]
       /\ IF o = "ok"
          THEN /\ images' = Untagged(images, dk[r].remote)
               /\ Return(r, Complete(Append(dk[r].steps, Step("rmi", <<"ok">>)),
                                     dk[r].remote, dk[r].local))
               /\ UNCHANGED resp
          ELSE IF IsAPIError(o)
          THEN /\ Return(r, Partial(Append(dk[r].steps,
                                Step("rmi", <<"failed: ">> \o Explanation(o)))))
               /\ UNCHANGED <<images, resp>>
          ELSE Raise(r) /\ UNCHANGED <<images, deploy>>
  /\ UNCHANGED <<man, last, cfg, clients, served, loop, req, ev, dk, out>>

\* lines 138-150
Rmi(r) ==
  /\ pc[r] = "rmi"
  /\ \E o \in Outcomes :
       /\ o = "ok" => dk[r].remote \in DOMAIN images
       /\ calls' = [calls EXCEPT ![r] = Append(@, Call("remove", dk[r].remote, o))]
       /\ IF o = "ok"
          THEN /\ images' = Untagged(images, dk[r].remote)
               /\ Return(r, Complete(Append(dk[r].steps, Step("rmi", <<"ok">>)),
                                     dk[r].remote, dk[r].local))
               /\ UNCHANGED resp
          ELSE IF IsAPIError(o)
          THEN /\ Return(r, Complete(Append(dk[r].steps,
                                Step("rmi", <<"failed: ">> \o Explanation(o))),
                                dk[r].remote, dk[r].local))
               /\ UNCHANGED <<images, resp>>
          ELSE Raise(r) /\ UNCHANGED <<images, deploy>>
  /\ UNCHANGED <<man, last, cfg, clients, served, loop, req, ev, dk, out>>

\* lines 243-263: the headline, the body and the link
Report(r) ==
  /\ pc[r] = "report"
  /\ out' = [out EXCEPT ![r].status_msg = StatusMsg(deploy[r]),
                        ![r].msg = Msg(ev[r], StatusMsg(deploy[r])),
                        ![r].jump_url = JumpUrl(cfg, ev[r])]
  /\ pc' = [pc EXCEPT ![r] = "notify"]
  /\ UNCHANGED <<man, last, cfg, clients, served, images, loop, req, ev, dk, deploy, resp, calls>>

\* mutant: a delivery that failed is tried once more
Notify_Retry(r) ==
  /\ pc[r] = "notify"
  /\ \E o \in GatewayOutcomes :
       /\ calls' = [calls EXCEPT ![r] =
                      IF o = "exception"
                      THEN Append(Append(@, Call("notify", out[r].msg, o)),
                                  Call("notify", out[r].msg, o))
                      ELSE Append(@, Call("notify", out[r].msg, o))]
       /\ out' = [out EXCEPT ![r].payload = Payload(out[r].status_msg, out[r].msg, out[r].jump_url),
                             ![r].meow_res = MeowResult(o)]
  /\ pc' = [pc EXCEPT ![r] = "respond"]
  /\ UNCHANGED <<man, last, cfg, clients, served, images, loop, req, ev, dk, deploy, resp>>

\* line 264: push_meow(MIAO_NICKNAME, status_msg, msg, jump_url)
Notify(r) ==
  /\ pc[r] = "notify"
  /\ \E o \in GatewayOutcomes :
       /\ calls' = [calls EXCEPT ![r] = Append(@, Call("notify", out[r].msg, o))]
       /\ out' = [out EXCEPT ![r].payload = Payload(out[r].status_msg, out[r].msg, out[r].jump_url),
                             ![r].meow_res = MeowResult(o)]
  /\ pc' = [pc EXCEPT ![r] = "respond"]
  /\ UNCHANGED <<man, last, cfg, clients, served, images, loop, req, ev, dk, deploy, resp>>

\* lines 266-274
Respond(r) ==
  /\ pc[r] = "respond"
  /\ resp' = [resp EXCEPT ![r] = [status |-> 200,
                                  keys |-> {"ok", "meow_result", "deploy", "user_agent"}]]
  /\ pc' = [pc EXCEPT ![r] = "done"]
  /\ UNCHANGED <<man, last, cfg, clients, served, images, loop, req, ev, dk, deploy, out, calls>>

(* ------------------- /notify (lines 167-198) -------------------------- *)
\* title of notify_get (a query parameter with a default) and of notify_post
\* (line 190)
ManualTitle(m) ==
  IF m.route = "GET" THEN Get(m.title, JStr(DEFAULT_TITLE)).s
  ELSE Or(m.title, JStr(DEFAULT_TITLE)).s

\* msg of notify_get (the query parameter) and of notify_post (line 191)
ManualMsg(m) == IF m.route = "GET" THEN m.msg.s ELSE Or(m.msg, JStr(Empty)).s

\* url or DEFAULT_JUMP_URL or None (lines 179, 195)
ManualUrl(c, m) == Or(m.url, JStr(c.DEFAULT_JUMP_URL))

\* nickname or MIAO_NICKNAME (lines 179, 196)
ManualNickname(m) == Or(m.nickname, JStr(MIAO_NICKNAME))

\* GET /notify arrives and notify_get runs up to its call of push_meow; a
\* request without msg is refused by the framework (Query(...), line 170)
GetNotify(r) ==
  /\ pc[r] = "idle"
  /\ r \in clients.slots
  /\ served < clients.requests
  /\ loop = 0
  /\ served' = served + 1
  /\ loop' = r
  /\ \E m \in ManualsSent(clients.traffic) :
       /\ m.route = "GET"
       /\ man' = [man EXCEPT ![r] = m]
       /\ IF m.msg = Absent
          THEN /\ pc' = [pc EXCEPT ![r] = "m_rejected"]
               /\ resp' = [resp EXCEPT ![r] = [status |-> 422, keys |-> {"detail"}]]
          ELSE IF SecretInvalid(cfg, m.secret)
          THEN /\ pc' = [pc EXCEPT ![r] = "m_rejected"]
               /\ resp' = [resp EXCEPT ![r] = [status |-> 401, keys |-> {"detail"}]]
          ELSE /\ pc' = [pc EXCEPT ![r] = "m_push"]
               /\ UNCHANGED resp
  /\ UNCHANGED <<last, cfg, clients, images, req, ev, dk, deploy, out, calls>>

\* POST /notify arrives and notify_post runs up to its call of push_meow
PostNotify(r) ==
  /\ pc[r] = "idle"
  /\ r \in clients.slots
  /\ served < clients.requests
  /\ loop = 0
  /\ served' = served + 1
  /\ loop' = r
  /\ \E m \in ManualsSent(clients.traffic) :
       /\ m.route = "POST"
       /\ man' = [man EXCEPT ![r] = m]
       /\ IF SecretInvalid(cfg, m.secret)
          THEN /\ pc' = [pc EXCEPT ![r] = "m_rejected"]
               /\ resp' = [resp EXCEPT ![r] = [status |-> 401, keys |-> {"detail"}]]
          ELSE IF ManualMsg(m) = Empty
          THEN /\ pc' = [pc EXCEPT ![r] = "m_rejected"]
               /\ resp' = [resp EXCEPT ![r] = [status |-> 400, keys |-> {"detail"}]]
          ELSE /\ pc' = [pc EXCEPT ![r] = "m_push"]
               /\ UNCHANGED resp
  /\ UNCHANGED <<last, cfg, clients, images, req, ev, dk, deploy, out, calls>>

\* push_meow as the two /notify handlers call it (lines 179, 198): quote() of
\* line 52 raises TypeError on a nickname that is no string, before the try
ManualPush(r) ==
  /\ pc[r] = "m_push"
  /\ IF ManualNickname(man[r]).k # "str"
     THEN /\ pc' = [pc EXCEPT ![r] = "m_fault"]
          /\ resp' = [resp EXCEPT ![r] = [status |-> 500, keys |-> {}]]
          /\ UNCHANGED <<out, calls>>
     ELSE \E o \in GatewayOutcomes :
            /\ calls' = [calls EXCEPT ![r] = Append(@, Call("notify", ManualMsg(man[r]), o))]
            /\ out' = [out EXCEPT ![r].msg = ManualMsg(man[r]),
                                  ![r].jump_url = ManualUrl(cfg, man[r]),
                                  ![r].payload = Payload(ManualTitle(man[r]), ManualMsg(man[r]),
                                                         ManualUrl(cfg, man[r])),
                                  ![r].meow_res = MeowResult(o)]
            /\ pc' = [pc EXCEPT ![r] = "m_done"]
            /\ resp' = [resp EXCEPT ![r] = [status |-> 200, keys |-> {"http_status"}]]
  /\ UNCHANGED <<man, last, cfg, clients, served, images, loop, req, ev, dk, deploy>>

\* what is kept of the sync of request r when its coroutine ends
LastSync(r) ==
  [ran |-> TRUE, ev |-> ev[r], calls |-> calls[r],
   early |-> TerminatedEarly(deploy[r]), cache |-> images]

\* the coroutine ends (it returned or raised): the response goes out, the
\* locals of the request are gone and the event loop runs the next task
Finish(r) ==
  /\ pc[r] \in {"done", "rejected", "fault", "m_done", "m_rejected", "m_fault"}
  /\ pc' = [pc EXCEPT ![r] = "idle"]
  /\ loop' = 0
  /\ req' = [req EXCEPT ![r] = NoReq]
  /\ ev' = [ev EXCEPT ![r] = NoEvent]
  /\ dk' = [dk EXCEPT ![r] = NoDocker]
  /\ deploy' = [deploy EXCEPT ![r] = NoDeploy]
  /\ out' = [out EXCEPT ![r] = NoOut]
  /\ resp' = [resp EXCEPT ![r] = NoResp]
  /\ calls' = [calls EXCEPT ![r] = << >>]
  /\ man' = [man EXCEPT ![r] = NoManual]
  /\ last' = IF "steps" \in deploy[r].keys THEN LastSync(r) ELSE NoLast
  /\ UNCHANGED <<cfg, clients, served, images>>

Next ==
  \E r \in Reqs :
    \/ PostPayload(r)
    \/ PostRoot(r)
    \/ ReadBody(r)
    \/ Parse(r)
    \/ Admit(r)
    \/ SyncStart(r)
    \/ Login(r)
    \/ Pull(r)
    \/ Tag(r)
    \/ Cleanup(r)
    \/ Rmi(r)
    \/ Report(r)
    \/ Notify(r)
    \/ Respond(r)
    \/ GetNotify(r)
    \/ PostNotify(r)
    \/ ManualPush(r)
    \/ Finish(r)

Spec == Init /\ [][Next]_vars

(* --------------- one client, several requests in a row ---------------- *)
MaxRequests == 2

\* deployments without secret, namespace filter and credentials, that differ
\* in the name and the tag given to the local image (lines 45-46)
RepeatConfigs ==
  {[WEBHOOK_SECRET |-> Empty,
    ALLOW_NAMESPACE |-> Empty,
    ACR_USERNAME |-> Empty,
    ACR_PASSWORD |-> Empty,
    ACR_REGISTRY |-> <<"reg">>,
    LOCAL_IMAGE_NAME |-> name,
    LOCAL_TAG |-> tag,
    DEFAULT_JUMP_URL |-> Empty] :
     name \in {Empty, <<"web">>, <<"reg", "/", "ns", "/", "app">>},
     tag \in {<<"latest">>, <<"v1">>}}

InitRepeat ==
  /\ cfg \in RepeatConfigs
  /\ clients = [slots |-> {1}, traffic |-> "push", requests |-> MaxRequests]
  /\ InitServer

SpecRepeat == InitRepeat /\ [][Next]_vars

(* ------------- several clients, their requests in flight -------------- *)
\* one deployment: no secret, no namespace filter, no credentials
ConcConfigs ==
  {c \in RepeatConfigs : c.LOCAL_IMAGE_NAME = Empty /\ c.LOCAL_TAG = <<"latest">>}

InitConc ==
  /\ cfg \in ConcConfigs
  /\ clients = [slots |-> Reqs, traffic |-> "push", requests |-> NumReqs]
  /\ InitServer

SpecConc == InitConc /\ [][Next]_vars

(* ============================== claims ================================ *)
\* the handler of r is past the secret check, with the request still in hand
Handling(r) ==
  pc[r] \notin {"idle", "await_body", "m_push", "m_done", "m_rejected", "m_fault"}

\* the sync engine or the admission has handed its result to line 243
Returned(r) == pc[r] \in {"report", "notify", "respond", "done"}

RuntimeOps == {"from_env", "login", "pull", "tag", "remove"}

\* request r made a call op that ended res
Called(r, op, res) ==
  \E i \in 1..Len(calls[r]) : calls[r][i].op = op /\ calls[r][i].res = res

\* request r made a call op, however it ended
Attempted(r, op) == \E i \in 1..Len(calls[r]) : calls[r][i].op = op

\* number of calls op of request r
RECURSIVE CountOp(_, _)
CountOp(cs, op) ==
  IF cs = << >> THEN 0
  ELSE (IF Head(cs).op = op THEN 1 ELSE 0) + CountOp(Tail(cs), op)

\* the Login step a sync records before it pulls
LoginStep == IF cfg.ACR_USERNAME = Empty \/ cfg.ACR_PASSWORD = Empty
             THEN Step("login", <<"skipped">>) ELSE Step("login", <<"ok">>)

PullStep(r) == [key |-> "pull", val |-> <<"ok">>, id |-> ImageOf(dk[r].remote), local |-> Empty]

TagStep(r) == [key |-> "tag", val |-> <<"ok">>, id |-> Empty, local |-> dk[r].local]

\* a sync in which the runtime did what it normally does: no login was
\* called, the image was pulled and no call of the runtime failed
NormalRun(cs) ==
  /\ \A i \in 1..Len(cs) : cs[i].op # "login"
  /\ \E i \in 1..Len(cs) : cs[i].op = "pull"
  /\ \A i \in 1..Len(cs) : cs[i].op \in RuntimeOps => cs[i].res = "ok"

\* C1: with a webhook secret configured, a request whose secret parameter
\* differs from it is answered 401, and nothing is parsed, no runtime call is
\* made and nothing is sent to the gateway for it.
C1_SecretMismatchRejected ==
  \A r \in Reqs :
    (Handling(r) /\ cfg.WEBHOOK_SECRET # Empty
       /\ req[r].secret # JStr(cfg.WEBHOOK_SECRET))
    => /\ pc[r] = "rejected"
       /\ resp[r].status = 401
       /\ ev[r] = NoEvent
       /\ deploy[r] = NoDeploy
       /\ calls[r] = << >>

C1_Witness ==
  \E r \in Reqs :
    /\ pc[r] = "rejected"
    /\ req[r].secret = JStr(<<"wrong">>)
    /\ req[r].body.kind = "dict"

\* C2: every request that passes the secret check ends with HTTP 200 and the
\* keys ok, meow_result, deploy, user_agent, whatever the body is and however
\* the runtime and the gateway behave: none ends with an HTTP error.
C2_AuthorizedAlways200 ==
  \A r \in Reqs :
    (Handling(r) /\ ~(cfg.WEBHOOK_SECRET # Empty
                      /\ req[r].secret # JStr(cfg.WEBHOOK_SECRET)))
    => /\ pc[r] # "fault"
       /\ resp[r].status \in {0, 200}
       /\ pc[r] = "done" =>
            /\ resp[r].status = 200
            /\ resp[r].keys = {"ok", "meow_result", "deploy", "user_agent"}

\* C3: the admission is the first matching rule of: empty repo_full, ignored
\* tag, namespace not allowed, proceed; exactly one of proceed and a skip
\* reason results, and the allowed namespace is never refused.
C3_AdmissionFirstMatch ==
  \A r \in Reqs :
    (Returned(r) \/ pc[r] \in {"sync", "login", "pull", "tag", "cleanup", "rmi"})
    => LET e == ev[r]
           d == deploy[r]
           empty == e.repo_full = JStr(Empty)
           ignored == e.tag.k = "str" /\ e.tag.s = IGNORE_TAG
           refused == cfg.ALLOW_NAMESPACE # Empty /\ e.namespace.s # cfg.ALLOW_NAMESPACE
       IN /\ empty => d.skipped /\ d.reason = <<"empty repo_full">>
          /\ (~empty /\ ignored) =>
               d.skipped /\ d.reason = <<"ignored tag ", IGNORE_TAG[1]>>
          /\ (~empty /\ ~ignored /\ refused) =>
               d.skipped /\ d.reason = <<"namespace not allowed: ">> \o e.namespace.s
          /\ (~empty /\ ~ignored /\ ~refused) => ~d.skipped
          /\ d.skipped <=> ("reason" \in d.keys /\ d.reason # Empty)
          /\ (d.skipped /\ e.namespace.s = cfg.ALLOW_NAMESPACE) =>
               Head(d.reason) # "namespace not allowed: "

C3_Witness ==
  \E r \in Reqs :
    /\ pc[r] = "done"
    /\ cfg.ALLOW_NAMESPACE = <<"ns">>
    /\ ev[r].namespace.s = <<"other">>
    /\ ev[r].tag = JStr(<<"v1">>)
    /\ deploy[r].reason = <<"namespace not allowed: ", "other">>

\* C4: an event the admission skips makes no runtime call, its deploy result
\* is {skipped, reason}, and the gateway is still called, with the
\* "auto-pull not triggered" headline.
C4_SkipStillNotifies ==
  \A r \in Reqs :
    deploy[r].skipped
    => /\ \A i \in 1..Len(calls[r]) : calls[r][i].op \notin RuntimeOps
       /\ deploy[r].keys = {"skipped", "reason"}
       /\ deploy[r].reason # Empty
       /\ deploy[r].steps = << >>
       /\ dk[r] = NoDocker
       /\ Returned(r)
       /\ pc[r] \in {"notify", "respond", "done"} => out[r].status_msg = MSG_NOT_TRIGGERED
       /\ pc[r] \in {"respond", "done"} =>
            /\ CountOp(calls[r], "notify") = 1
            /\ out[r].payload.title = MSG_NOT_TRIGGERED

C4_Witness ==
  \E r \in Reqs :
    /\ pc[r] = "done"
    /\ deploy[r].skipped
    /\ deploy[r].reason = <<"ignored tag ", IGNORE_TAG[1]>>
    /\ Attempted(r, "notify")

\* C5: when the login fails, Pull, Tag and Remove are not attempted, and the
\* result the sync returns holds the failed Login, with the explanation of
\* the runtime, as its only step and is one that ended early.
C5_LoginFailureStops ==
  \A r \in Reqs :
    (\E i \in 1..Len(calls[r]) : calls[r][i].op = "login" /\ calls[r][i].res # "ok")
    => /\ cfg.ACR_USERNAME # Empty /\ cfg.ACR_PASSWORD # Empty
       /\ ~Attempted(r, "pull") /\ ~Attempted(r, "tag") /\ ~Attempted(r, "remove")
       /\ Returned(r) =>
            /\ Len(deploy[r].steps) = 1
            /\ deploy[r].steps[1] =
                 Step("login", <<"failed: ", "explanation of ", "APIError">>)
            /\ TerminatedEarly(deploy[r])

C5_Witness ==
  \E r \in Reqs :
    /\ pc[r] = "done"
    /\ Called(r, "login", "APIError")
    /\ Len(deploy[r].steps) = 1

\* C6: when the pull fails, Tag and Remove are not attempted, and the result
\* the sync returns holds two steps, Login (ok or skipped) and the failed
\* Pull, and is one that ended early.
C6_PullFailureStops ==
  \A r \in Reqs :
    (\E i \in 1..Len(calls[r]) : calls[r][i].op = "pull" /\ calls[r][i].res # "ok")
    => /\ ~Attempted(r, "tag") /\ ~Attempted(r, "remove")
       /\ Returned(r) =>
            /\ deploy[r].steps =
                 <<LoginStep, Step("pull", <<"failed: ", "explanation of ", "APIError">>)>>
            /\ TerminatedEarly(deploy[r])

C6_Witness ==
  \E r \in Reqs :
    /\ pc[r] = "done"
    /\ Called(r, "pull", "APIError")
    /\ Len(deploy[r].steps) = 2
    /\ deploy[r].steps[1].val = <<"skipped">>

\* C7: when the runtime refuses the tag after a successful pull, remoteRef is
\* removed once, the result returned holds the three steps Login, Pull and
\* the failed Tag, no Remove step, and ended early; it is that result whether
\* the removal succeeds or fails, in whatever way.
C7_TagFailureCleansUp ==
  \A r \in Reqs :
    Called(r, "tag", "APIError")
    => /\ Called(r, "pull", "ok")
       /\ pc[r] \in {"cleanup", "report", "notify", "respond", "done"}
       /\ Returned(r) =>
            /\ CountOp(calls[r], "remove") = 1
            /\ \E i \in 1..Len(calls[r]) :
                 calls[r][i].op = "remove" /\ calls[r][i].arg = dk[r].remote
            /\ deploy[r] =
                 Partial(<<LoginStep, PullStep(r),
                           Step("tag", <<"failed: ", "str of ", "APIError">>)>>)
            /\ TerminatedEarly(deploy[r])

C7_Witness ==
  \E r \in Reqs :
    /\ pc[r] = "done"
    /\ Called(r, "tag", "APIError")
    /\ Called(r, "remove", "ConnectionError")

\* C8: when Login, Pull and Tag went well and the runtime refuses the
\* removal, the failure is the fourth step and the result is the complete
\* one (four steps, remote, local) of a successful removal but for the
\* outcome of that step: the sync did not end early.
C8_RemoveFailureRecorded ==
  \A r \in Reqs :
    (Called(r, "tag", "ok") /\ Returned(r))
    => /\ Len(deploy[r].steps) = 4
       /\ deploy[r].steps[4].val = IF Called(r, "remove", "ok") THEN <<"ok">>
                                   ELSE <<"failed: ", "explanation of ", "APIError">>
       /\ [deploy[r] EXCEPT !.steps[4].val = <<"ok">>] =
            Complete(<<LoginStep, PullStep(r), TagStep(r), Step("rmi", <<"ok">>)>>,
                     dk[r].remote, dk[r].local)
       /\ ~TerminatedEarly(deploy[r])

C8_Witness ==
  \E r \in Reqs :
    /\ pc[r] = "done"
    /\ Called(r, "tag", "ok")
    /\ Called(r, "remove", "APIError")
    /\ deploy[r].keys = {"steps", "remote", "local"}

\* C9: no failure of a runtime interaction (obtaining the client, login,
\* pull, tag, remove), of whatever kind, leaves the sync engine as a fault:
\* the caller gets a result.
C9_NoRuntimeFaultEscapes ==
  \A r \in Reqs :
    (\E i \in 1..Len(calls[r]) :
       calls[r][i].op \in RuntimeOps /\ calls[r][i].res # "ok")
    => pc[r] # "fault"

\* C10: for an admitted event the headline is "auto-pull succeeded" exactly
\* when the pull succeeded, whatever Tag and Remove did afterwards, and
\* "did not succeed" in every other case.
C10_HeadlineFollowsPull ==
  \A r \in Reqs :
    (pc[r] \in {"notify", "respond", "done"} /\ ~deploy[r].skipped)
    => /\ out[r].status_msg =
            IF Called(r, "pull", "ok") THEN MSG_PULL_OK ELSE MSG_PULL_NOT_OK
       /\ Called(r, "pull", "ok") <=>
            \E i \in 1..Len(deploy[r].steps) :
              deploy[r].steps[i].key = "pull" /\ deploy[r].steps[i].val = <<"ok">>
       /\ pc[r] \in {"respond", "done"} => out[r].payload.title = out[r].status_msg

C10_Witness ==
  \E r \in Reqs :
    /\ pc[r] = "done"
    /\ Called(r, "tag", "APIError")
    /\ out[r].status_msg = MSG_PULL_OK

\* C11: when the sync engine runs twice in a row for the same event and the
\* runtime behaves normally both times (no login, the pull, the tagging and
\* the removal succeed), neither run ends early and the second run leaves
\* the image cache exactly as the first left it.
C11_SyncIdempotent ==
  \A r \in Reqs :
    (pc[r] = "done" /\ last.ran /\ last.ev = ev[r]
       /\ NormalRun(last.calls) /\ NormalRun(calls[r]))
    => /\ ~last.early
       /\ ~TerminatedEarly(deploy[r])
       /\ Len(deploy[r].steps) = 4
       /\ images = last.cache

C11_Witness ==
  \E r \in Reqs :
    /\ pc[r] = "done"
    /\ last.ran /\ last.ev = ev[r]
    /\ NormalRun(last.calls) /\ NormalRun(calls[r])
    /\ Called(r, "remove", "ok")
    /\ images = last.cache
    /\ images # NoImages

\* C12: parsing is total: whatever the body is (empty, not JSON, a JSON value
\* that is no object, an object whose push_data or repository or their
\* fields are missing or of a wrong type), no exception leaves lines 214-229
\* and every field of the parsed event is a string, the empty string when it
\* could not be read.
C12_ParsingTotal ==
  \A r \in Reqs :
    /\ pc[r] = "fault" => ev[r] # NoEvent
    /\ ev[r] # NoEvent =>
         \A f \in {"tag", "digest", "pushed_at", "repo_full", "namespace", "region"} :
           ev[r][f].k = "str"

\* C13: the tag of the parsed event is already normalized ("lastest" in any
\* case and the missing tag both read "latest"), so the tag the admission
\* compares with the sentinel and the notification shows on its Tag line is
\* the very tag the sync engine pulls.
C13_TagNormalizedAtParse ==
  \A r \in Reqs :
    /\ (ev[r] # NoEvent /\ ev[r].tag.k = "str")
         => ev[r].tag.s = normalize_tag(ev[r].tag.s)
    /\ (ev[r] # NoEvent /\ dk[r].remote # Empty)
         => /\ dk[r].tag = ev[r].tag.s
            /\ dk[r].remote = RemoteRef(cfg, ev[r].repo_full, ev[r].tag.s)
            /\ pc[r] \in {"notify", "respond", "done"}
                 => Line(<<"Tag: ">>, JStr(dk[r].tag)) = Line(<<"Tag: ">>, ev[r].tag)

\* C14: a request to GET /notify or POST /notify that passes the secret check
\* with an empty message is refused with an HTTP error and nothing is sent;
\* one with a message calls the gateway exactly once; neither parses an
\* event, asks the admission or runs the sync engine.
C14_ManualNotify ==
  \A r \in Reqs :
    (man[r].route # "none" /\ ~SecretInvalid(cfg, man[r].secret))
    => /\ ManualMsg(man[r]) = Empty
            => /\ pc[r] = "m_rejected"
               /\ resp[r].status >= 400
               /\ calls[r] = << >>
       /\ ManualMsg(man[r]) # Empty
            => /\ pc[r] \in {"m_push", "m_done"}
               /\ pc[r] = "m_done" => /\ Len(calls[r]) = 1
                                      /\ calls[r][1].op = "notify"
       /\ ev[r] = NoEvent /\ dk[r] = NoDocker /\ deploy[r] = NoDeploy

\* the steps of a sync, in the order the engine takes them
StepKinds == <<"login", "pull", "tag", "rmi">>

\* steps is the start of login, pull, tag, rmi, each step after steps that
\* went well (a login may also have been skipped)
OrderedSteps(steps) ==
  /\ Len(steps) <= Len(StepKinds)
  /\ \A i \in 1..Len(steps) : steps[i].key = StepKinds[i]
  /\ \A i \in 1..(Len(steps) - 1) :
       \/ steps[i].val = <<"ok">>
       \/ i = 1 /\ steps[i].val = <<"skipped">>

IsPrefix(a, b) == Len(a) <= Len(b) /\ \A i \in 1..Len(a) : a[i] = b[i]

\* no step of the handler of r rewrites or drops a recorded entry
StepsKept(r) ==
  pc'[r] # "idle"
  => /\ IsPrefix(dk[r].steps, dk'[r].steps)
     /\ "steps" \in deploy[r].keys => deploy'[r] = deploy[r]
     /\ ("steps" \in deploy'[r].keys /\ deploy'[r] # NoLocalImage)
          => IsPrefix(dk[r].steps, deploy'[r].steps)

\* C15 as stated: every result the sync engine returns for an admitted event
\* has a step list that is a non-empty start of Login, Pull, Tag, Remove, each
\* step recorded after steps that went well.
C15_StepsPrefix ==
  \A r \in Reqs :
    (Returned(r) /\ "steps" \in deploy[r].keys)
    => deploy[r].steps # << >> /\ OrderedSteps(deploy[r].steps)

\* C15, amended: the result of the sync engine for an admitted event is either
\* the single error entry of an event whose local image name resolves to
\* nothing (no step was taken), or a non-empty start of Login, Pull, Tag,
\* Remove in which each step follows steps that went well; and an entry once
\* recorded is never changed or removed.
C15_StepsPrefixOrError ==
  /\ [](\A r \in Reqs :
         /\ OrderedSteps(dk[r].steps)
         /\ (Returned(r) /\ "steps" \in deploy[r].keys)
              => \/ deploy[r] = NoLocalImage /\ \A op \in RuntimeOps : ~Attempted(r, op)
                 \/ deploy[r].steps # << >> /\ OrderedSteps(deploy[r].steps))
  /\ [][\A r \in Reqs : StepsKept(r)]_vars

C15_Witness ==
  \E r \in Reqs :
    /\ Returned(r)
    /\ Len(deploy[r].steps) = 3
    /\ deploy[r].steps[3].key = "tag"
    /\ deploy[r].steps[3].val # <<"ok">>

\* C16: without a user name or without a password the sync engine makes no
\* login call, records the login as skipped as its first step and goes on to
\* pull; with both, every pull comes after a login call that succeeded.
C16_LoginSkippedOrFirst ==
  \A r \in Reqs :
    dk[r].remote # Empty
    => IF cfg.ACR_USERNAME = Empty \/ cfg.ACR_PASSWORD = Empty
       THEN /\ ~Attempted(r, "login")
            /\ dk[r].steps # << >> => dk[r].steps[1] = Step("login", <<"skipped">>)
            /\ dk[r].steps # << >> => pc[r] = "pull" \/ Attempted(r, "pull")
       ELSE \A i \in 1..Len(calls[r]) :
              calls[r][i].op = "pull"
              => \E j \in 1..(i - 1) : calls[r][j] = Call("login", cfg.ACR_REGISTRY, "ok")

C16_Witness ==
  \E r \in Reqs :
    /\ cfg.ACR_USERNAME # Empty /\ cfg.ACR_PASSWORD = Empty
    /\ dk[r].steps # << >>
    /\ dk[r].steps[1] = Step("login", <<"skipped">>)
    /\ Called(r, "pull", "ok")

\* C17: after a sync whose pull, tagging and removal all went well, the cache
\* holds the local reference on the image just pulled and no longer holds the
\* remote reference, whatever the registry host, the local image name and the
\* local tag are.
C17_LocalKeptRemoteGone ==
  \A r \in Reqs :
    (Returned(r) /\ Called(r, "pull", "ok") /\ Called(r, "tag", "ok")
       /\ Called(r, "remove", "ok"))
    => /\ dk[r].local \in DOMAIN images
       /\ images[dk[r].local] = ImageOf(dk[r].remote)
       /\ dk[r].remote \notin DOMAIN images

\* a field of the event that has something to show
NonEmpty(v) == v.k \notin {"absent", "null"} /\ v.s # Empty

\* the line of a field with its line break, nothing for a field without value
Present(label, v) == IF NonEmpty(v) THEN <<label>> \o v.s \o <<"\n">> ELSE << >>

\* C18: the body sent to the gateway is the lines of the fields that have a
\* value, in the order repository, region, tag, digest, time, each on its own
\* line, followed by the status line as last line; it is never empty. The
\* link is DEFAULT_JUMP_URL when set, else the full repository name, and no
\* link is sent when both are empty.
C18_BodyAndLink ==
  \A r \in Reqs :
    pc[r] \in {"respond", "done"}
    => /\ out[r].payload.msg =
            Present("Repository: ", ev[r].repo_full) \o Present("Region: ", ev[r].region)
            \o Present("Tag: ", ev[r].tag) \o Present("Digest: ", ev[r].digest)
            \o Present("Time: ", ev[r].pushed_at)
            \o <<"Status: ">> \o out[r].status_msg
       /\ out[r].status_msg # Empty
       /\ calls[r][Len(calls[r])].arg = out[r].payload.msg
       /\ out[r].payload.url =
            IF cfg.DEFAULT_JUMP_URL # Empty THEN JStr(cfg.DEFAULT_JUMP_URL)
            ELSE IF NonEmpty(ev[r].repo_full) THEN ev[r].repo_full
            ELSE Absent

C18_Witness ==
  \E r \in Reqs :
    /\ pc[r] = "done"
    /\ ev[r].repo_full = JStr(<<"ns", "/", "app">>)
    /\ ev[r].digest = JStr(Empty)
    /\ cfg.DEFAULT_JUMP_URL = Empty
    /\ out[r].payload.url = ev[r].repo_full
    /\ Called(r, "notify", "delivered")

\* C19: a webhook request that is handled up to its response calls the
\* gateway exactly once, after the last call of the runtime it makes (the
\* removal of the clean-up included) and with the headline of the final
\* result; no call of the runtime follows the notification.
C19_NotifyOnceAndLast ==
  \A r \in Reqs :
    /\ pc[r] \in {"respond", "done"}
         => /\ CountOp(calls[r], "notify") = 1
            /\ calls[r][Len(calls[r])].op = "notify"
            /\ out[r].payload.title = StatusMsg(deploy[r])
    /\ pc[r] \in {"parse", "admit", "sync", "login", "pull", "tag", "cleanup", "rmi",
                   "report", "notify", "fault", "rejected"}
         => CountOp(calls[r], "notify") = 0
    /\ \A i \in 1..Len(calls[r]) :
         calls[r][i].op = "notify"
         => \A j \in (i + 1)..Len(calls[r]) : calls[r][j].op \notin RuntimeOps

C19_Witness ==
  \E r \in Reqs :
    /\ pc[r] = "respond"
    /\ Called(r, "tag", "APIError")
    /\ Len(calls[r]) >= 2
    /\ calls[r][Len(calls[r]) - 1].op = "remove"
    /\ calls[r][Len(calls[r])].op = "notify"

\* the handler of r has read its body and has not ended yet
Running(r) ==
  pc[r] \in {"parse", "admit", "sync", "login", "pull", "tag", "cleanup", "rmi",
             "report", "notify", "respond", "done", "rejected", "fault"}

\* C20: in one server process the syncs of two webhook requests never
\* interleave: from the moment a request has read its body until its handler
\* ends, it holds the event loop and no other request is past reading its
\* body or in a /notify handler.
C20_NoInterleaving ==
  \A r1 \in Reqs :
    Running(r1)
    => /\ loop = r1
       /\ \A r2 \in Reqs \ {r1} : pc[r2] \in {"idle", "await_body"}

C20_Witness ==
  \E r1, r2 \in Reqs :
    /\ r1 # r2
    /\ pc[r1] = "tag"
    /\ Called(r1, "pull", "ok")
    /\ pc[r2] = "await_body"
    /\ loop = r1

====
